---- MODULE Spec2Model ----
(***************************************************************************)
(* SmartPlan reminders: the client-side reminder scheduler of             *)
(* RemindersPage (client/src/pages/reminders.tsx), the ReminderDialog      *)
(* edit form, and the reminder part of MemStorage behind the               *)
(* /api/reminders routes.                                                  *)
(*                                                                         *)
(* Strings the code parses (dates, times, notification keys) are tuples of *)
(* one-character strings.  Instants are milliseconds counted from local    *)
(* midnight of EpochDate, so that they stay inside TLC's integers; only    *)
(* differences of instants are observed by the code.                      *)
(***************************************************************************)
EXTENDS Integers, Sequences, FiniteSets, TLC

\* ------------------------------------------------------------------ bounds
MaxInflight == 1
MaxClock == 6
MaxEvents == 2
MaxTasks == 1
MaxOtherRecords == 1
MaxSignups == 2
MaxCreates == 3

\* ------------------------------------------------------- values and inputs
\* JS null, kept a tuple so that it compares with the strings it replaces
Null == <<"null">>
\* JS NaN, a value outside every number the model computes
NaN == -2000000000

DigitChars == <<"0", "1", "2", "3", "4", "5", "6", "7", "8", "9">>

\* the calendar day every instant of the model is counted from
EpochDate == <<2024, 5, 9>>

\* "2024-05-10"
Date0510 == <<"2", "0", "2", "4", "-", "0", "5", "-", "1", "0">>
\* "23:44"
Time2344 == <<"2", "3", ":", "4", "4">>
\* the empty string of an untouched <input type="time">
NoTime == <<>>

DueDates == {Date0510}
DueTimes == {NoTime, Time2344}

Statuses == {"pending", "overdue", "completed", "cancelled"}

\* the ids MemStorage may hand out before the model stops creating
ReminderIds == {1}

\* wall-clock readings <<year, month, day, hours, minutes, seconds, ms>>
\* offered to new Date(): noon of the due day; 5 and 4.5 minutes before
\* 23:44; 23:59:59.000 and 23:59:59.500; noon of the next day; then the
\* first second of the next day, 23:44 itself and 1 minute before it.
\* The clock uses the first MaxClock of them.
ClockReadings ==
    << <<2024, 5, 10, 12, 0, 0, 0>>,
       <<2024, 5, 10, 23, 39, 0, 0>>,
       <<2024, 5, 10, 23, 39, 30, 0>>,
       <<2024, 5, 10, 23, 59, 59, 0>>,
       <<2024, 5, 10, 23, 59, 59, 500>>,
       <<2024, 5, 11, 12, 0, 0, 0>>,
       <<2024, 5, 11, 0, 0, 1, 0>>,
       <<2024, 5, 10, 23, 44, 0, 0>>,
       <<2024, 5, 10, 23, 43, 0, 0>> >>

\* ------------------------------------------------------------ JS helpers
RECURSIVE SplitAcc(_, _, _, _)
SplitAcc(s, sep, cur, acc) ==
    IF s = <<>> THEN Append(acc, cur)
    ELSE IF Head(s) = sep THEN SplitAcc(Tail(s), sep, <<>>, Append(acc, cur))
    ELSE SplitAcc(Tail(s), sep, Append(cur, Head(s)), acc)

\* String.prototype.split(sep) for a one-character separator
Split(s, sep) == SplitAcc(s, sep, <<>>, <<>>)

DigitValue(c) == CHOOSE i \in 0..9 : DigitChars[i + 1] = c

IsDigit(c) == \E i \in 1..10 : DigitChars[i] = c

RECURSIVE DigitsValue(_, _)
DigitsValue(s, acc) ==
    IF s = <<>> THEN acc ELSE DigitsValue(Tail(s), acc * 10 + DigitValue(Head(s)))

\* Number(str) for the strings a split yields: "" is 0, decimal digits are
\* their value, anything else is NaN
Number(s) ==
    IF \A i \in 1..Len(s) : IsDigit(s[i]) THEN DigitsValue(s, 0) ELSE NaN

\* arr.map(Number)[i - 1]: an element the split did not yield is undefined,
\* which is NaN in arithmetic
At(arr, i) == IF i <= Len(arr) THEN Number(arr[i]) ELSE NaN

RECURSIVE NatToChars(_)
NatToChars(n) ==
    IF n < 10 THEN <<DigitChars[n + 1]>>
    ELSE NatToChars(n \div 10) \o <<DigitChars[(n % 10) + 1]>>

\* days from 0000-03-01 of the proleptic Gregorian calendar
DaysFromCivil(y, m, d) ==
    LET yy == IF m <= 2 THEN y - 1 ELSE y
        era == yy \div 400
        yoe == yy - era * 400
        mp == IF m > 2 THEN m - 3 ELSE m + 9
        doy == (153 * mp + 2) \div 5 + d - 1
        doe == yoe * 365 + yoe \div 4 - yoe \div 100 + doy
    IN  era * 146097 + doe

EpochDays == DaysFromCivil(EpochDate[1], EpochDate[2], EpochDate[3])

\* new Date(year, monthIndex, day, hours, minutes, seconds, ms).getTime():
\* the local instant, NaN as soon as one field is NaN
NewDate(year, monthIndex, day, hours, minutes, seconds, ms) ==
    IF NaN \in {year, monthIndex, day, hours, minutes, seconds, ms} THEN NaN
    ELSE (DaysFromCivil(year, monthIndex + 1, day) - EpochDays) * 86400000
         + hours * 3600000 + minutes * 60000 + seconds * 1000 + ms

Minus(a, b) == IF a = NaN \/ b = NaN THEN NaN ELSE a - b

\* Math.floor(x / d) for d > 0
FloorDiv(x, d) == IF x = NaN THEN NaN ELSE x \div d

\* a < b,  a <= b,  a > b of JS numbers: false when an operand is NaN
Lt(a, b) == a # NaN /\ b # NaN /\ a < b
Le(a, b) == a # NaN /\ b # NaN /\ a <= b
Gt(a, b) == a # NaN /\ b # NaN /\ a > b

ClockInstant(c) == NewDate(c[1], c[2] - 1, c[3], c[4], c[5], c[6], c[7])

ClockPoints == {ClockInstant(ClockReadings[i]) : i \in 1..MaxClock}

\* ------------------------------------------------------- Time Utilities
parseLocalDate(dateStr) ==
    LET ymd == Split(dateStr, "-")
    IN  NewDate(At(ymd, 1), Minus(At(ymd, 2), 1), At(ymd, 3), 0, 0, 0, 0)

\* parseLocalDateTime with the start of the day as the default, as in
\* parseLocalDate
parseLocalDateTime_StartOfDay(dateStr, timeStr) ==
    LET ymd == Split(dateStr, "-")
        year == At(ymd, 1)
        month == Minus(At(ymd, 2), 1)
        day == At(ymd, 3)
    IN  IF timeStr # Null /\ timeStr # <<>>
        THEN LET hm == Split(timeStr, ":")
             IN  NewDate(year, month, day, At(hm, 1), At(hm, 2), 0, 0)
        ELSE NewDate(year, month, day, 0, 0, 0, 0)

parseLocalDateTime(dateStr, timeStr) ==
    LET ymd == Split(dateStr, "-")
        year == At(ymd, 1)
        month == Minus(At(ymd, 2), 1)
        day == At(ymd, 3)
    IN  IF timeStr # Null /\ timeStr # <<>>  \* truthiness of timeStr
        THEN LET hm == Split(timeStr, ":")
             IN  NewDate(year, month, day, At(hm, 1), At(hm, 2), 0, 0)
        ELSE NewDate(year, month, day, 23, 59, 59, 0)

\* parseLocalDateTime over the dates and times a reminder of the model can
\* hold (a stored dueTime is a time string or null), evaluated once
ParsedDue ==
    [d \in DueDates, t \in DueTimes \cup {Null} |-> parseLocalDateTime(d, t)]

NOTIFICATION_INTERVALS == <<15, 5, 3, 1>>

\* `${reminder.id}-${interval}`
notificationKey(id, interval) == NatToChars(id) \o <<"-">> \o NatToChars(interval)

\* new Date().toISOString(): a non-empty string; no code reads a stored
\* completedAt back, so the model keeps one string for every instant
toISOString(t) == <<"i", "s", "o">>

\* ------------------------------------------------------------------ state
VARIABLES
    storageReminders,      \* MemStorage.reminders: id -> Reminder
    nextReminderId,        \* MemStorage.nextReminderId
    reminders,             \* the page's cached query data: id -> Reminder
    notifiedReminders,     \* the page's ref: set of notification keys
    notificationsEnabled,  \* the page's state flag
    mounted,               \* the page, and with it the scheduler effect, is alive
    now,                   \* the wall clock read by new Date()
    requests,              \* PATCH /api/reminders/:id requests in flight
    fired,                 \* log: the <<id, interval>> alerts sent, in order
    lastPass,              \* what the evaluation pass of this step emitted
    lastResponse,          \* the request that was answered in this step
    events,                \* the events handed to checkTimeConflict
    tasks,                 \* the tasks handed to checkTimeConflict
    conflictCall,          \* the other arguments of the last checkTimeConflict call
    conflicts,             \* what that call returned
    storageOther,          \* MemStorage's other collections: name -> id -> record
    nextOtherId,           \* MemStorage's other id counters: name -> next id
    apiResponse,           \* the API request handled in this step and its answer
    grouped,               \* the page's memo getRemindersGrouped and its inputs
    parsed,                \* the last call of a time utility and its outcome
    effect,                \* what made the scheduler effect run its last pass
    users,                 \* MemStorage.users, as the set of its records
    signups,               \* the POST /api/auth/signup requests being handled
    attendances,           \* MemStorage.attendances: id -> Attendance
    nextId,                \* MemStorage's this.nextId, read by createAttendance
    issued                 \* log: the <<kind, id>> the create operations assigned

pageVars == <<storageReminders, nextReminderId, reminders, notifiedReminders,
              notificationsEnabled, mounted, now, requests, fired, lastPass,
              lastResponse>>

\* what the reminders page and its PATCH requests never touch
\* the variables of the time utilities, the effect's bookkeeping, the
\* signup route and the attendances
extraVars == <<parsed, effect, users, signups, attendances, nextId, issued>>

otherVars == <<events, tasks, conflictCall, conflicts, storageOther, nextOtherId,
               apiResponse, grouped, extraVars>>

vars == <<pageVars, otherVars>>

UserId == "u1"

NoPass == [ran |-> FALSE, updates |-> {}, alerts |-> {}, notified |-> {}]
NoResponse == [kind |-> "none", id |-> 0, ok |-> FALSE, from |-> "none", to |-> "none"]

EmptyMap == [i \in {} |-> Null]

\* { ...a, ...b }
Spread(a, b) ==
    [f \in DOMAIN a \cup DOMAIN b |-> IF f \in DOMAIN b THEN b[f] ELSE a[f]]

\* Map.set(id, value)
MapSet(m, id, value) ==
    [i \in DOMAIN m \cup {id} |-> IF i = id THEN value ELSE m[i]]

\* Map.delete(id)
MapDelete(m, id) == [i \in DOMAIN m \ {id} |-> m[i]]

\* the reminders page as it mounts on an empty storage
PageInit ==
    /\ storageReminders = EmptyMap
    /\ nextReminderId = 1
    /\ reminders = EmptyMap
    /\ notifiedReminders = {}
    /\ notificationsEnabled = FALSE
    /\ mounted = TRUE
    /\ now = ClockInstant(ClockReadings[1])
    /\ requests = {}
    /\ fired = <<>>
    /\ lastPass = NoPass
    /\ lastResponse = NoResponse

\* the collections the routes serve besides the reminders
OtherCollections == {"disciplines", "events", "tasks", "goals", "meetings"}

\* an exclusion id that is not passed: undefined, falsy as 0 is
NoId == 0

NoCall == [called |-> FALSE, newDate |-> <<>>, newStartTime |-> Null,
           newEndTime |-> Null, excludeEventId |-> NoId, excludeTaskId |-> NoId]

NoApiResponse == [method |-> "none", collection |-> "none", uid |-> "none", id |-> 0,
                  body |-> EmptyMap, status |-> 0, sent |-> {}, before |-> {}]

NoGrouping == [rendered |-> FALSE, filterType |-> "all", filterPriority |-> "all",
               at |-> 0, today |-> <<>>, upcoming |-> <<>>, overdue |-> <<>>,
               completed |-> <<>>]

\* no calendar item loaded, and no conflict check made
CalendarInit ==
    /\ events = <<>>
    /\ tasks = <<>>
    /\ conflictCall = NoCall
    /\ conflicts = <<>>

\* new MemStorage(): the other maps empty, their counters at 1
ApiInit ==
    /\ storageOther = [c \in OtherCollections |-> EmptyMap]
    /\ nextOtherId = [c \in OtherCollections |-> 1]
    /\ apiResponse = NoApiResponse

GroupInit == grouped = NoGrouping

NoParse == [fn |-> "none", dateStr |-> <<>>, timeStr |-> <<>>, threw |-> FALSE,
            value |-> 0]

NoSignup == [pc |-> "idle", email |-> <<>>, status |-> 0]

\* a field that was never declared nor assigned reads undefined
Undefined == -2000000001

\* the scheduler effect before its first run; emitted counts, per reminder,
\* the overdue updates sent since the last tick of the 30 s timer
NoEffect == [started |-> FALSE, cause |-> "none",
             emitted |-> [id \in ReminderIds |-> 0]]

\* nothing parsed yet, the effect not yet run, no user, no signup under
\* way, no attendance
ExtraInit ==
    /\ parsed = NoParse
    /\ effect = NoEffect
    /\ users = {}
    /\ signups = [r \in 1..MaxSignups |-> NoSignup]
    /\ attendances = EmptyMap
    /\ nextId = Undefined
    /\ issued = <<>>

Init == PageInit /\ CalendarInit /\ ApiInit /\ GroupInit /\ ExtraInit

\* ---------------------------------------------------------------- server
\* MemStorage.getReminders(userId)
getReminders(userId) ==
    LET ids == {i \in DOMAIN storageReminders : storageReminders[i].userId = userId}
    IN  [i \in ids |-> storageReminders[i]]

\* data.f || dflt  and  data.f ?? dflt  for the values the dialog sends
OrDefault(data, f, dflt) == IF f \in DOMAIN data THEN data[f] ELSE dflt

\* the record MemStorage.createReminder builds for id
createReminder(id, data) ==
    [id |-> id,
     userId |-> OrDefault(data, "userId", ""),
     title |-> OrDefault(data, "title", ""),
     reminderType |-> OrDefault(data, "reminderType", "prazo"),
     dueDate |-> OrDefault(data, "dueDate", <<>>),
     dueTime |-> OrDefault(data, "dueTime", Null),
     priority |-> OrDefault(data, "priority", "medium"),
     notificationEnabled |-> OrDefault(data, "notificationEnabled", TRUE),
     status |-> OrDefault(data, "status", "pending"),
     completedAt |-> OrDefault(data, "completedAt", Null)]

\* the updateReminder that restores pending when a patch changes nothing
updateReminder_UndoesRepeat(store, id, data) ==
    MapSet(store, id,
           IF Spread(store[id], data) = store[id]
           THEN Spread(store[id], [status |-> "pending"])
           ELSE Spread(store[id], data))

\* the map MemStorage.updateReminder leaves; the caller checks that id is stored
updateReminder(store, id, data) == MapSet(store, id, Spread(store[id], data))

\* ---------------------------------------------------------------- client
\* the reminder prop of a dialog that creates: reminder?.status is undefined
NoReminder == [status |-> "undefined"]

\* the payload status that keeps whatever status the reminder has
DialogStatus_KeepsStatus(reminder) ==
    IF reminder.status = "undefined" THEN "pending" ELSE reminder.status

\* the payload of ReminderDialog's mutationFn
DialogStatus(reminder) ==
    IF reminder.status = "completed" THEN "completed" ELSE "pending"

\* the form's dueTime for an edited reminder: reminder.dueTime || ""
FormTime(dueTime) == IF dueTime = Null THEN <<>> ELSE dueTime

DialogPayload(reminder, title, dueDate, dueTime, notificationEnabled) ==
    [title |-> title,
     reminderType |-> "trabalho",
     dueDate |-> dueDate,
     dueTime |-> IF dueTime # <<>> THEN dueTime ELSE Null,
     priority |-> "medium",
     notificationEnabled |-> notificationEnabled,
     status |-> DialogStatus(reminder)]

\* the body toggleStatusMutation sends for the reminder as the page shows it
ToggleNewStatus(reminder) ==
    IF reminder.status = "completed" THEN "pending" ELSE "completed"

\* the toggle body that sends completedAt only when it completes
ToggleBody_KeepsTimestamp(reminder, clock) ==
    IF ToggleNewStatus(reminder) = "completed"
    THEN [status |-> "completed", completedAt |-> toISOString(clock)]
    ELSE [status |-> "pending"]

ToggleBody(reminder, clock) ==
    [status |-> ToggleNewStatus(reminder),
     completedAt |-> IF ToggleNewStatus(reminder) = "completed"
                     THEN toISOString(clock) ELSE Null]

\* the body updateStatusMutation sends
StatusBody(status) == [status |-> status]

UserRequests == {r \in requests : r.kind # "overdue"}

\* the ids of a map in insertion order, which is the order of the ids
RECURSIVE SortedIds(_)
SortedIds(ids) ==
    IF ids = {} THEN <<>>
    ELSE LET m == CHOOSE i \in ids : \A j \in ids : i <= j
         IN  <<m>> \o SortedIds(ids \ {m})

\* the lead-time test without the look-up in the ref's set
ShouldNotify_NoDedup(diffMinutes, interval, key, notified) ==
    /\ Le(diffMinutes, interval)
    /\ Gt(diffMinutes, interval - 1)

\* the lead-time test with a tolerance of two minutes
ShouldNotify_WideWindow(diffMinutes, interval, key, notified) ==
    /\ Le(diffMinutes, interval)
    /\ Gt(diffMinutes, interval - 2)
    /\ key \notin notified

\* the lead-time test of a reminder that is at most interval minutes away
ShouldNotify_NoLowerBound(diffMinutes, interval, key, notified) ==
    /\ Le(diffMinutes, interval)
    /\ Gt(diffMinutes, -1)
    /\ key \notin notified

\* the lead-time test applied to the minutes counted up from sixteen
\* minutes before the due instant
ShouldNotify_Mirrored(diffMinutes, interval, key, notified) ==
    /\ Le(Minus(16, diffMinutes), interval)
    /\ Gt(Minus(16, diffMinutes), interval - 1)
    /\ key \notin notified

\* the lead-time test of checkReminders
ShouldNotify(diffMinutes, interval, key, notified) ==
    /\ Le(diffMinutes, interval)
    /\ Gt(diffMinutes, interval - 1)
    /\ key \notin notified

\* NOTIFICATION_INTERVALS.forEach from position k on; acc carries the ref's
\* set and the alerts sent so far
RECURSIVE CheckIntervals(_, _, _, _)
CheckIntervals(reminder, diffMinutes, k, acc) ==
    IF k > Len(NOTIFICATION_INTERVALS) THEN acc
    ELSE LET interval == NOTIFICATION_INTERVALS[k]
             key == notificationKey(reminder.id, interval)
         IN  IF ShouldNotify(diffMinutes, interval, key, acc.notified)
             THEN CheckIntervals(reminder, diffMinutes, k + 1,
                      [acc EXCEPT !.notified = @ \cup {key},
                                  !.alerts = Append(@, <<reminder.id, interval>>)])
             ELSE CheckIntervals(reminder, diffMinutes, k + 1, acc)

\* the overdue test with <= in place of <
ShouldPromote_AtDue(reminder, diffMs) == Le(diffMs, 0) /\ reminder.status = "pending"

\* the overdue test that holds only in the first minute after the due instant
ShouldPromote_FirstMinute(reminder, diffMs) ==
    Lt(diffMs, 0) /\ Gt(diffMs, -60000) /\ reminder.status = "pending"

\* the overdue test that holds from one second before the due instant
ShouldPromote_OneSecondEarly(reminder, diffMs) ==
    Lt(diffMs, 1000) /\ reminder.status = "pending"

\* the overdue test of checkReminders
ShouldPromote(reminder, diffMs) == Lt(diffMs, 0) /\ reminder.status = "pending"

\* the guard of the notification block without the page's flag
AlertsWanted_IgnoresSession(enabled, reminder) == reminder.notificationEnabled

\* the guard of the notification block of checkReminders
AlertsWanted(enabled, reminder) == enabled /\ reminder.notificationEnabled

\* the statuses the pass returns on at once
SkippedByPass(reminder) == reminder.status = "completed"

\* the body of reminders.forEach for one reminder
CheckOne(reminder, clock, enabled, acc) ==
    IF SkippedByPass(reminder) THEN acc
    ELSE LET dueDateTime == ParsedDue[reminder.dueDate, reminder.dueTime]
             diffMs == Minus(dueDateTime, clock)
             diffMinutes == FloorDiv(diffMs, 60000)
             acc1 == IF ShouldPromote(reminder, diffMs)
                     THEN [acc EXCEPT !.updates = Append(@, reminder.id)]
                     ELSE acc
         IN  IF AlertsWanted(enabled, reminder)
             THEN CheckIntervals(reminder, diffMinutes, 1, acc1)
             ELSE acc1

RECURSIVE CheckAll(_, _, _, _, _)
CheckAll(snapshot, ids, clock, enabled, acc) ==
    IF ids = <<>> THEN acc
    ELSE CheckAll(snapshot, Tail(ids), clock, enabled,
                  CheckOne(snapshot[Head(ids)], clock, enabled, acc))

\* one run of checkReminders over the snapshot
checkReminders(snapshot, clock, enabled, notified) ==
    CheckAll(snapshot, SortedIds(DOMAIN snapshot), clock, enabled,
             [notified |-> notified, alerts |-> <<>>, updates |-> <<>>])

Range(seq) == {seq[i] : i \in 1..Len(seq)}

OverdueRequest(id) == [kind |-> "overdue", id |-> id, body |-> StatusBody("overdue")]

\* --------------------------------------------------------------- actions
\* the timer that runs the passes although the page is gone
TimerSet_Forever == TRUE

\* the interval of the effect exists from setInterval to the cleanup's
\* clearInterval, which the unmount runs
TimerSet == mounted

\* the effect's immediate run or a tick of its 30 s interval
Pass ==
    /\ TimerSet
    /\ Len(fired) <= Len(NOTIFICATION_INTERVALS) * Cardinality(ReminderIds)
    /\ LET res == checkReminders(reminders, now, notificationsEnabled, notifiedReminders)
       IN  /\ notifiedReminders' = res.notified
           /\ fired' = fired \o res.alerts
           /\ requests' = requests \cup {OverdueRequest(id) : id \in Range(res.updates)}
           /\ lastPass' = [ran |-> TRUE,
                           updates |-> Range(res.updates),
                           alerts |-> Range(res.alerts),
                           notified |-> notifiedReminders]
    /\ lastResponse' = NoResponse
    /\ UNCHANGED otherVars
    /\ UNCHANGED <<storageReminders, nextReminderId, reminders,
                   notificationsEnabled, mounted, now>>

\* the wall clock moves on
AdvanceClock ==
    /\ \E t \in ClockPoints : t > now /\ now' = t
    /\ lastPass' = NoPass
    /\ lastResponse' = NoResponse
    /\ UNCHANGED otherVars
    /\ UNCHANGED <<storageReminders, nextReminderId, reminders, notifiedReminders,
                   notificationsEnabled, mounted, requests, fired>>

\* the ["reminders"] query completes a fetch (refetchInterval or an
\* invalidation) and the page renders the new data
Refetch ==
    /\ mounted
    /\ reminders' = getReminders(UserId)
    /\ lastPass' = NoPass
    /\ lastResponse' = NoResponse
    /\ UNCHANGED otherVars
    /\ UNCHANGED <<storageReminders, nextReminderId, notifiedReminders,
                   notificationsEnabled, mounted, now, requests, fired>>

\* Notification.permission is "granted", at mount or after the request
GrantNotifications ==
    /\ mounted
    /\ ~notificationsEnabled
    /\ notificationsEnabled' = TRUE
    /\ lastPass' = NoPass
    /\ lastResponse' = NoResponse
    /\ UNCHANGED otherVars
    /\ UNCHANGED <<storageReminders, nextReminderId, reminders, notifiedReminders,
                   mounted, now, requests, fired>>

\* ReminderDialog without a reminder: POST /api/reminders and createReminder;
\* flags are the positions the user may leave the notifications switch in
SubmitNew(flags) ==
    /\ mounted
    /\ nextReminderId \in ReminderIds
    /\ \E dueDate \in DueDates, dueTime \in DueTimes, flag \in flags :
          LET body == DialogPayload(NoReminder, "t", dueDate, dueTime, flag)
              data == Spread(body, [userId |-> UserId])
          IN  storageReminders' =
                  MapSet(storageReminders, nextReminderId,
                         createReminder(nextReminderId, data))
    /\ nextReminderId' = nextReminderId + 1
    /\ lastPass' = NoPass
    /\ lastResponse' = NoResponse
    /\ UNCHANGED otherVars
    /\ UNCHANGED <<reminders, notifiedReminders, notificationsEnabled, mounted,
                   now, requests, fired>>

SubmitNewReminder == SubmitNew(BOOLEAN)

\* the dialog submitted with the switch as the form initialises it
SubmitNewDefault == SubmitNew({TRUE})

\* a click on the circle of a reminder card: toggleStatusMutation.mutate
ToggleStatus ==
    /\ mounted
    /\ Cardinality(UserRequests) < MaxInflight
    /\ \E id \in DOMAIN reminders :
          requests' = requests \cup
              {[kind |-> "toggle", id |-> id, body |-> ToggleBody(reminders[id], now)]}
    /\ lastPass' = NoPass
    /\ lastResponse' = NoResponse
    /\ UNCHANGED otherVars
    /\ UNCHANGED <<storageReminders, nextReminderId, reminders, notifiedReminders,
                   notificationsEnabled, mounted, now, fired>>

\* ReminderDialog opened on a reminder card and submitted with the form as
\* it was filled from the reminder
SubmitEdit ==
    /\ mounted
    /\ Cardinality(UserRequests) < MaxInflight
    /\ \E id \in DOMAIN reminders :
          LET r == reminders[id]
          IN  requests' = requests \cup
                  {[kind |-> "edit", id |-> id,
                    body |-> DialogPayload(r, r.title, r.dueDate, FormTime(r.dueTime),
                                           r.notificationEnabled)]}
    /\ lastPass' = NoPass
    /\ lastResponse' = NoResponse
    /\ UNCHANGED otherVars
    /\ UNCHANGED <<storageReminders, nextReminderId, reminders, notifiedReminders,
                   notificationsEnabled, mounted, now, fired>>

\* PATCH /api/reminders/:id with the status the schema calls cancelled
CancelReminder ==
    /\ Cardinality(UserRequests) < MaxInflight
    /\ \E id \in DOMAIN storageReminders :
          requests' = requests \cup
              {[kind |-> "cancel", id |-> id, body |-> StatusBody("cancelled")]}
    /\ lastPass' = NoPass
    /\ lastResponse' = NoResponse
    /\ UNCHANGED otherVars
    /\ UNCHANGED <<storageReminders, nextReminderId, reminders, notifiedReminders,
                   notificationsEnabled, mounted, now, fired>>

\* the toast a mutation's callbacks show when its request is answered:
\* the dialog's mutation has onSuccess and onError, toggleStatusMutation
\* has onSuccess only, updateStatusMutation's onSuccess shows nothing
NoToast == "none"

toast(kind, ok) ==
    CASE kind = "edit" /\ ok -> "Lembrete atualizado"
      [] kind = "edit" /\ ~ok -> "Erro"
      [] kind = "toggle" /\ ok -> "Status atualizado"
      [] OTHER -> NoToast

\* the PATCH route handles request req: updateReminder answers with the
\* merged record, or throws "Not found" and the mutation fails
ServerPatchReq(req) ==
    /\ req \in requests
    /\ requests' = requests \ {req}
    /\ IF req.id \in DOMAIN storageReminders
       THEN /\ storageReminders' = updateReminder(storageReminders, req.id, req.body)
            /\ lastResponse' = [kind |-> req.kind, id |-> req.id, ok |-> TRUE,
                                from |-> storageReminders[req.id].status,
                                to |-> storageReminders'[req.id].status]
       ELSE /\ storageReminders' = storageReminders
            /\ lastResponse' = [kind |-> req.kind, id |-> req.id, ok |-> FALSE,
                                from |-> "none", to |-> "none"]
    /\ lastPass' = NoPass
    /\ UNCHANGED otherVars
    /\ UNCHANGED <<nextReminderId, reminders, notifiedReminders,
                   notificationsEnabled, mounted, now, fired>>

ServerPatch == \E req \in requests : ServerPatchReq(req)

\* a request fails before it reaches the storage (fetch rejects, or the
\* response is not ok): the mutation throws and nothing is stored
FailRequest ==
    /\ \E req \in requests :
          /\ requests' = requests \ {req}
          /\ lastResponse' = [kind |-> req.kind, id |-> req.id, ok |-> FALSE,
                              from |-> "none", to |-> "none"]
    /\ lastPass' = NoPass
    /\ UNCHANGED otherVars
    /\ UNCHANGED <<storageReminders, nextReminderId, reminders, notifiedReminders,
                   notificationsEnabled, mounted, now, fired>>

\* deleteMutation: DELETE /api/reminders/:id and deleteReminder
DeleteReminder ==
    /\ mounted
    /\ \E id \in DOMAIN reminders :
          storageReminders' = MapDelete(storageReminders, id)
    /\ lastPass' = NoPass
    /\ lastResponse' = NoResponse
    /\ UNCHANGED otherVars
    /\ UNCHANGED <<nextReminderId, reminders, notifiedReminders,
                   notificationsEnabled, mounted, now, requests, fired>>

\* the page unmounts: the effect cleanup clears the interval
Unmount ==
    /\ mounted
    /\ mounted' = FALSE
    /\ lastPass' = NoPass
    /\ lastResponse' = NoResponse
    /\ UNCHANGED otherVars
    /\ UNCHANGED <<storageReminders, nextReminderId, reminders, notifiedReminders,
                   notificationsEnabled, now, requests, fired>>

\* the page's operations and its unmount
NextUnmount ==
    \/ Pass
    \/ AdvanceClock
    \/ Refetch
    \/ GrantNotifications
    \/ SubmitNewReminder
    \/ ToggleStatus
    \/ SubmitEdit
    \/ CancelReminder
    \/ ServerPatch
    \/ FailRequest
    \/ DeleteReminder
    \/ Unmount

UnmountSpec == Init /\ [][NextUnmount]_vars

Next ==
    \/ Pass
    \/ AdvanceClock
    \/ Refetch
    \/ GrantNotifications
    \/ SubmitNewReminder
    \/ ToggleStatus
    \/ SubmitEdit
    \/ CancelReminder
    \/ ServerPatch
    \/ FailRequest
    \/ DeleteReminder

Spec == Init /\ [][Next]_vars

\* the operations the page itself performs: no request but those of its
\* own mutations reaches the server
NextClient ==
    \/ Pass
    \/ AdvanceClock
    \/ Refetch
    \/ GrantNotifications
    \/ SubmitNewReminder
    \/ ToggleStatus
    \/ SubmitEdit
    \/ ServerPatch
    \/ FailRequest
    \/ DeleteReminder

SpecClient == Init /\ [][NextClient]_vars

\* the operations that bear on the stored status: the page's notifications
\* flag stays off, so passes send no alert
NextStatus ==
    \/ Pass
    \/ AdvanceClock
    \/ Refetch
    \/ SubmitNewDefault
    \/ ToggleStatus
    \/ SubmitEdit
    \/ CancelReminder
    \/ ServerPatch
    \/ FailRequest
    \/ DeleteReminder

\* the timer of the effect keeps ticking (setInterval, 30 s), the query keeps
\* refetching (refetchInterval, 30 s), and a promotion write that is in
\* flight again and again is eventually applied
LiveSpec ==
    /\ Init
    /\ [][NextStatus]_vars
    /\ WF_vars(Pass)
    /\ WF_vars(Refetch)
    /\ \A id \in ReminderIds : SF_vars(ServerPatchReq(OverdueRequest(id)))

\* ---------------------------------------------------------- lead times
\* The page watched through the last half hour before a reminder is due:
\* the clock readings fall into the windows of the leads 15, 5, 3 and 1 of
\* a reminder due at 23:44, and of the leads 15 and 5 of one due at the
\* last second of the day.
LeadReadings ==
    { <<2024, 5, 10, 23, 29, 0, 0>>,
      <<2024, 5, 10, 23, 39, 0, 0>>,
      <<2024, 5, 10, 23, 41, 0, 0>>,
      <<2024, 5, 10, 23, 43, 0, 0>>,
      <<2024, 5, 10, 23, 44, 59, 0>>,
      <<2024, 5, 10, 23, 54, 59, 0>> }

LeadPoints == {ClockInstant(c) : c \in LeadReadings}

\* the wall clock moves on to a later reading
AdvanceLeadClock ==
    /\ \E t \in LeadPoints : t > now /\ now' = t
    /\ lastPass' = NoPass
    /\ lastResponse' = NoResponse
    /\ UNCHANGED otherVars
    /\ UNCHANGED <<storageReminders, nextReminderId, reminders, notifiedReminders,
                   notificationsEnabled, mounted, requests, fired>>

\* the operations that leave dueDate and dueTime of a stored reminder alone
NextLead ==
    \/ Pass
    \/ AdvanceLeadClock
    \/ Refetch
    \/ GrantNotifications
    \/ SubmitNewReminder
    \/ ToggleStatus
    \/ ServerPatch
    \/ FailRequest

LeadSpec == Init /\ [][NextLead]_vars

\* ------------------------------------------------------- scheduler effect
\* The effect of the page runs checkReminders once when it starts, then on
\* every tick of setInterval; React runs it again (cleanup, then the body
\* with its immediate checkReminders) whenever one of its dependencies
\* [reminders, notificationsEnabled, updateStatusMutation, sendNotification,
\* toast] has changed at a render.

EffectFrame == <<events, tasks, conflictCall, conflicts, storageOther, nextOtherId,
                 apiResponse, grouped, parsed, users, signups, attendances,
                 nextId, issued>>

\* the overdue updates counted after a pass that was started by cause
Emitted(cause, updates) ==
    [id \in ReminderIds |->
        (IF cause = "timer" THEN 0 ELSE effect.emitted[id])
            + (IF id \in updates THEN 1 ELSE 0)]

\* one call of checkReminders over the snapshot and flag of the render
\* whose effect is running
RunEffect(snapshot, enabled, cause) ==
    /\ Len(fired) <= Len(NOTIFICATION_INTERVALS) * Cardinality(ReminderIds)
    /\ LET res == checkReminders(snapshot, now, enabled, notifiedReminders)
       IN  /\ notifiedReminders' = res.notified
           /\ fired' = fired \o res.alerts
           /\ requests' = requests \cup {OverdueRequest(id) : id \in Range(res.updates)}
           /\ lastPass' = [ran |-> TRUE,
                           updates |-> Range(res.updates),
                           alerts |-> Range(res.alerts),
                           notified |-> notifiedReminders]
           /\ effect' = [started |-> TRUE, cause |-> cause,
                         emitted |-> Emitted(cause, Range(res.updates))]
    /\ lastResponse' = NoResponse
    /\ UNCHANGED EffectFrame
    /\ UNCHANGED <<storageReminders, nextReminderId, mounted, now>>

\* the effect runs for the first time: checkReminders(), then setInterval
StartEffect ==
    /\ mounted
    /\ ~effect.started
    /\ RunEffect(reminders, notificationsEnabled, "start")
    /\ UNCHANGED <<reminders, notificationsEnabled>>

\* the interval of the effect ticks
TimerTick ==
    /\ mounted
    /\ effect.started
    /\ RunEffect(reminders, notificationsEnabled, "timer")
    /\ UNCHANGED <<reminders, notificationsEnabled>>

\* a fetch of the ["reminders"] query brings data that differ from the
\* cached ones: the page renders, the dependency reminders has changed and
\* the effect runs again
RefetchRerun ==
    /\ mounted
    /\ effect.started
    /\ reminders' = getReminders(UserId)
    /\ reminders' # reminders
    /\ RunEffect(reminders', notificationsEnabled, "render")
    /\ UNCHANGED notificationsEnabled

\* the permission is granted: setNotificationsEnabled(true) renders the
\* page, notificationsEnabled and sendNotification have changed and the
\* effect runs again
GrantRerun ==
    /\ mounted
    /\ effect.started
    /\ ~notificationsEnabled
    /\ notificationsEnabled' = TRUE
    /\ RunEffect(reminders, TRUE, "render")
    /\ UNCHANGED reminders

NextEffect ==
    \/ StartEffect
    \/ TimerTick
    \/ RefetchRerun
    \/ GrantRerun
    \/ AdvanceClock
    \/ SubmitNewDefault
    \/ ServerPatch
    \/ FailRequest

EffectSpec == Init /\ [][NextEffect]_vars

\* ------------------------------------------------------ conflict detector
\* "2024-05-11"
Date0511 == <<"2", "0", "2", "4", "-", "0", "5", "-", "1", "1">>
\* "09:00", "09:30", "10:00", "10:30", "11:00"
Time0900 == <<"0", "9", ":", "0", "0">>
Time0930 == <<"0", "9", ":", "3", "0">>
Time1000 == <<"1", "0", ":", "0", "0">>
Time1030 == <<"1", "0", ":", "3", "0">>
Time1100 == <<"1", "1", ":", "0", "0">>

CalendarDates == {Date0510, Date0511}

\* the date the candidate item is on
CandidateDate == Date0510

\* the <<startTime, endTime>> pairs of the events and candidates of the
\* model: no time at all (null, or the empty strings of a form), three
\* one-hour ranges half an hour apart, a start without an end, an end
\* without a start
TimeSlots ==
    { <<Null, Null>>,
      <<NoTime, Time1000>>,
      <<Time0900, Time1000>>,
      <<Time0930, Time1030>>,
      <<Time1000, Time1100>>,
      <<Time0900, Null>>,
      <<Time1000, Null>> }

TimeStrings == {slot[1] : slot \in TimeSlots} \cup {slot[2] : slot \in TimeSlots}

\* the null a number | null holds, a value outside every number of minutes
NullMinutes == -1000000000

\* timeToMinutes(time)
timeToMinutes(time) ==
    IF time = Null \/ time = <<>> THEN NullMinutes
    ELSE LET parts == Split(time, ":")
             hours == At(parts, 1)
             minutes == At(parts, 2)
         IN  IF hours = NaN \/ minutes = NaN THEN NaN ELSE hours * 60 + minutes

\* timeToMinutes over the time strings of the model, computed once
MinutesOf == [t \in TimeStrings |-> timeToMinutes(t)]

\* end ?? start + 60
EffectiveEnd(start, end) ==
    IF end # NullMinutes THEN end
    ELSE IF start = NaN THEN NaN ELSE start + 60

\* the overlap test that counts ranges that only touch
hasTimeOverlap_Touching(start1, end1, start2, end2) ==
    IF start1 = NullMinutes \/ start2 = NullMinutes THEN TRUE
    ELSE /\ Le(start1, EffectiveEnd(start2, end2))
         /\ Le(start2, EffectiveEnd(start1, end1))

\* the overlap test that needs both start times
hasTimeOverlap_NeedsTimes(start1, end1, start2, end2) ==
    /\ start1 # NullMinutes
    /\ start2 # NullMinutes
    /\ Lt(start1, EffectiveEnd(start2, end2))
    /\ Lt(start2, EffectiveEnd(start1, end1))

\* hasTimeOverlap(start1, end1, start2, end2)
hasTimeOverlap(start1, end1, start2, end2) ==
    IF start1 = NullMinutes \/ start2 = NullMinutes THEN TRUE
    ELSE /\ Lt(start1, EffectiveEnd(start2, end2))
         /\ Lt(start2, EffectiveEnd(start1, end1))

\* the exclusion test that never excludes
Excluded_Never(excludeId, id) == FALSE

\* excludeEventId && event.id === excludeEventId, and the same for tasks
Excluded(excludeId, id) == excludeId # 0 /\ id = excludeId

\* the date test that takes every date for the candidate's
OnDate_Any(itemDate, newDate) == TRUE

\* event.startDate === newDate,  task.dueDate === newDate
OnDate(itemDate, newDate) == itemDate = newDate

\* the guard that checks the tasks for every candidate
TasksChecked_Always(newStart) == TRUE

\* newStart === null
TasksChecked(newStart) == newStart = NullMinutes

EventItem(event) ==
    [type |-> "event", title |-> event.title, date |-> event.startDate,
     startTime |-> event.startTime, endTime |-> event.endTime]

TaskItem(task) ==
    [type |-> "task", title |-> task.title, date |-> task.dueDate,
     startTime |-> Null, endTime |-> Null]

\* the callback of events.forEach, for one event
EventConflicts(event, newDate, newStart, newEnd, excludeEventId) ==
    /\ ~Excluded(excludeEventId, event.id)
    /\ OnDate(event.startDate, newDate)
    /\ hasTimeOverlap(newStart, newEnd,
                      MinutesOf[event.startTime], MinutesOf[event.endTime])

\* the callback of tasks.forEach, for one task
TaskConflicts(task, newDate, excludeTaskId) ==
    /\ ~Excluded(excludeTaskId, task.id)
    /\ OnDate(task.dueDate, newDate)

RECURSIVE EventsForEach(_, _, _, _, _, _, _)
EventsForEach(evs, k, newDate, newStart, newEnd, excludeEventId, acc) ==
    IF k > Len(evs) THEN acc
    ELSE EventsForEach(evs, k + 1, newDate, newStart, newEnd, excludeEventId,
             IF EventConflicts(evs[k], newDate, newStart, newEnd, excludeEventId)
             THEN Append(acc, EventItem(evs[k])) ELSE acc)

RECURSIVE TasksForEach(_, _, _, _, _)
TasksForEach(tks, k, newDate, excludeTaskId, acc) ==
    IF k > Len(tks) THEN acc
    ELSE TasksForEach(tks, k + 1, newDate, excludeTaskId,
             IF TaskConflicts(tks[k], newDate, excludeTaskId)
             THEN Append(acc, TaskItem(tks[k])) ELSE acc)

\* checkTimeConflict(newDate, newStartTime, newEndTime, events, tasks,
\*                   excludeEventId, excludeTaskId)
checkTimeConflict(newDate, newStartTime, newEndTime, evs, tks, excludeEventId, excludeTaskId) ==
    LET newStart == MinutesOf[newStartTime]
        newEnd == MinutesOf[newEndTime]
        found == EventsForEach(evs, 1, newDate, newStart, newEnd, excludeEventId, <<>>)
    IN  IF TasksChecked(newStart)
        THEN TasksForEach(tks, 1, newDate, excludeTaskId, found)
        ELSE found

\* the titles tell the items apart
EventTitle(id) == <<"e">> \o NatToChars(id)
TaskTitle(id) == <<"t">> \o NatToChars(id)

\* the event lists of n events, ids as the storage numbers them from 1
EventLists(n) ==
    {[i \in 1..n |-> [id |-> i, title |-> EventTitle(i), startDate |-> c[i][1],
                      startTime |-> c[i][2][1], endTime |-> c[i][2][2]]] :
        c \in [1..n -> CalendarDates \X TimeSlots]}

\* the task lists of n tasks; a task may have no due date
TaskLists(n) ==
    {[i \in 1..n |-> [id |-> i, title |-> TaskTitle(i), dueDate |-> c[i]]] :
        c \in [1..n -> CalendarDates \cup {Null}]}

\* the calendar is any list of at most MaxEvents events and MaxTasks tasks
CalendarDrawn ==
    /\ events \in UNION {EventLists(n) : n \in 0..MaxEvents}
    /\ tasks \in UNION {TaskLists(n) : n \in 0..MaxTasks}
    /\ conflictCall = NoCall
    /\ conflicts = <<>>

ConflictInit == PageInit /\ CalendarDrawn /\ ApiInit /\ GroupInit /\ ExtraInit

\* a form checks its candidate item, with or without exclusion ids; the
\* function keeps nothing between calls, so one call per calendar is made
CheckTimeConflict ==
    /\ ~conflictCall.called
    /\ \E slot \in TimeSlots, excludeEventId \in {NoId} \cup (1..MaxEvents),
          excludeTaskId \in {NoId} \cup (1..MaxTasks) :
          /\ conflictCall' = [called |-> TRUE, newDate |-> CandidateDate,
                              newStartTime |-> slot[1], newEndTime |-> slot[2],
                              excludeEventId |-> excludeEventId,
                              excludeTaskId |-> excludeTaskId]
          /\ conflicts' = checkTimeConflict(CandidateDate, slot[1], slot[2], events,
                                            tasks, excludeEventId, excludeTaskId)
    /\ UNCHANGED <<events, tasks>>
    /\ UNCHANGED <<pageVars, storageOther, nextOtherId, apiResponse, grouped, extraVars>>

NextConflict == CheckTimeConflict

ConflictSpec == ConflictInit /\ [][NextConflict]_vars

\* ------------------------------------------------------- display grouping
\* a >= b of JS numbers and of the Dates that hold them
Ge(a, b) == a # NaN /\ b # NaN /\ a >= b

\* the ids, dates, types and filter choices of the reminders the grouping
\* is computed over
GroupIds == {1, 2}
GroupDates == {Date0510, Date0511}
GroupTypes == {"trabalho", "prova"}
FilterTypes == {"all", "prova"}
FilterPriorities == {"all", "high"}

\* parseLocalDateTime over those reminders, evaluated once
ParsedGroupDue ==
    [d \in GroupDates, t \in {Null, Time2344} |-> parseLocalDateTime(d, t)]

\* the callback of reminders.filter
MatchesFilters(r, filterType, filterPriority) ==
    LET matchType == filterType = "all" \/ r.reminderType = filterType
        matchPriority == filterPriority = "all" \/ r.priority = filterPriority
    IN  matchType /\ matchPriority

\* filteredReminders: the query data, in the order the server lists it
RECURSIVE Filter(_, _, _, _)
Filter(snapshot, ids, filterType, filterPriority) ==
    IF ids = <<>> THEN <<>>
    ELSE LET r == snapshot[Head(ids)]
             rest == Filter(snapshot, Tail(ids), filterType, filterPriority)
         IN  IF MatchesFilters(r, filterType, filterPriority) THEN <<r>> \o rest ELSE rest

filteredReminders(snapshot, filterType, filterPriority) ==
    Filter(snapshot, SortedIds(DOMAIN snapshot), filterType, filterPriority)

\* one step of the stable sort: r goes behind every element that is not
\* later than it (comparator dateA.getTime() - dateB.getTime())
RECURSIVE InsertByDue(_, _)
InsertByDue(sorted, r) ==
    IF sorted = <<>> THEN <<r>>
    ELSE IF Gt(ParsedGroupDue[Head(sorted).dueDate, Head(sorted).dueTime],
               ParsedGroupDue[r.dueDate, r.dueTime])
         THEN <<r>> \o sorted
         ELSE <<Head(sorted)>> \o InsertByDue(Tail(sorted), r)

RECURSIVE SortByDue(_, _)
SortByDue(rs, acc) ==
    IF rs = <<>> THEN acc ELSE SortByDue(Tail(rs), InsertByDue(acc, Head(rs)))

sortedReminders(filtered) == SortByDue(filtered, <<>>)

\* new Date(now.getFullYear(), now.getMonth(), now.getDate()).getTime()
TodayStart(clock) == FloorDiv(clock, 24 * 60 * 60 * 1000) * (24 * 60 * 60 * 1000)

\* the overdue test that looks at the status only
InOverdueSection_ByStatusOnly(reminder, dueDateTime, clock) ==
    reminder.status = "overdue"

\* dueDateTime.getTime() < now.getTime() || reminder.status === "overdue"
InOverdueSection(reminder, dueDateTime, clock) ==
    Lt(dueDateTime, clock) \/ reminder.status = "overdue"

\* dueDateTime >= todayStart && dueDateTime < tomorrowStart
InTodaySection(dueDateTime, clock) ==
    LET todayStart == TodayStart(clock)
        tomorrowStart == todayStart + 24 * 60 * 60 * 1000
    IN  Ge(dueDateTime, todayStart) /\ Lt(dueDateTime, tomorrowStart)

\* the callback of sortedReminders.forEach: the section reminder is pushed to
SectionOf(reminder, clock) ==
    IF reminder.status = "completed" THEN "completed"
    ELSE LET dueDateTime == ParsedGroupDue[reminder.dueDate, reminder.dueTime]
         IN  IF InOverdueSection(reminder, dueDateTime, clock) THEN "overdue"
             ELSE IF InTodaySection(dueDateTime, clock) THEN "today"
             ELSE "upcoming"

RECURSIVE GroupForEach(_, _, _)
GroupForEach(sorted, clock, acc) ==
    IF sorted = <<>> THEN acc
    ELSE LET section == SectionOf(Head(sorted), clock)
         IN  GroupForEach(Tail(sorted), clock,
                          [acc EXCEPT ![section] = Append(@, Head(sorted))])

\* getRemindersGrouped, computed from sortedReminders at clock
getRemindersGrouped(sorted, clock) ==
    GroupForEach(sorted, clock,
                 [today |-> <<>>, upcoming |-> <<>>, overdue |-> <<>>, completed |-> <<>>])

\* the reminder lists the query may hold: the records createReminder
\* builds, with any status a PATCH may have stored
GroupSnapshots(ids) ==
    {[i \in ids |->
         Spread(createReminder(i, [userId |-> UserId, title |-> "t",
                                   reminderType |-> c[i][1], dueDate |-> c[i][2],
                                   dueTime |-> c[i][3]]),
                [status |-> c[i][4]])] :
        c \in [ids -> GroupTypes \X GroupDates \X {Null, Time2344} \X Statuses]}

\* the page holds any list of at most two reminders, at any clock reading
GroupDrawn ==
    /\ storageReminders = EmptyMap
    /\ nextReminderId = 1
    /\ reminders \in UNION {GroupSnapshots(1..n) : n \in 0..Cardinality(GroupIds)}
    /\ notifiedReminders = {}
    /\ notificationsEnabled = FALSE
    /\ mounted = TRUE
    /\ now \in ClockPoints
    /\ requests = {}
    /\ fired = <<>>
    /\ lastPass = NoPass
    /\ lastResponse = NoResponse

GroupSpecInit == GroupDrawn /\ CalendarInit /\ ApiInit /\ GroupInit /\ ExtraInit

\* a render that computes the memos, under the filters the user has chosen
Render ==
    /\ mounted
    /\ \E filterType \in FilterTypes, filterPriority \in FilterPriorities :
          LET sorted == sortedReminders(filteredReminders(reminders, filterType,
                                                          filterPriority))
              sections == getRemindersGrouped(sorted, now)
          IN  grouped' = [rendered |-> TRUE, filterType |-> filterType,
                          filterPriority |-> filterPriority, at |-> now,
                          today |-> sections.today, upcoming |-> sections.upcoming,
                          overdue |-> sections.overdue,
                          completed |-> sections.completed]
    /\ UNCHANGED <<pageVars, events, tasks, conflictCall, conflicts, storageOther,
                   nextOtherId, apiResponse, extraVars>>

NextGroup == Render

GroupSpec == GroupSpecInit /\ [][NextGroup]_vars

\* -------------------------------------------------------------- API routes
\* the ids of the users that may be logged in, and the value of
\* req.session?.user?.id when nobody is (undefined)
Users == {"u1", "u2"}
NoUser == "undefined"

\* the null checkAuth returns after it has answered 401
NullUid == "null"

Collections == OtherCollections \cup {"reminders"}

\* the checkAuth that lets a request without a session user through
checkAuth_Guest(sessionUser) == IF sessionUser = NoUser THEN "guest" ELSE sessionUser

\* checkAuth(req, res): the session's user id, or null
checkAuth(sessionUser) == IF sessionUser = NoUser THEN NullUid ELSE sessionUser

\* the status checkAuth has set when it returns null
Unauthorized == 401

\* res.json(...) of a handler that ran through, and the answer of a
\* handler whose storage call threw "Not found"
Ok == 200
ServerError == 500

\* the record createDiscipline, createEvent, createTask, createGoal and
\* createMeeting build, cut down to the fields the routes deal with
createItem(id, data) ==
    [id |-> id,
     userId |-> OrDefault(data, "userId", ""),
     title |-> OrDefault(data, "title", "")]

\* the map of collection c
StoreOf(c) == IF c = "reminders" THEN storageReminders ELSE storageOther[c]

\* the records created so far in the collections other than the reminders
RECURSIVE OtherCreated(_)
OtherCreated(cs) ==
    IF cs = {} THEN 0
    ELSE LET c == CHOOSE x \in cs : TRUE
         IN  (nextOtherId[c] - 1) + OtherCreated(cs \ {c})

\* the storage may still number a new record of collection c
HasRoom(c) ==
    IF c = "reminders" THEN nextReminderId \in ReminderIds
    ELSE OtherCreated(OtherCollections) < MaxOtherRecords

\* the bodies the clients send: the dialog's payload and the status bodies
\* for a reminder, a title for the other collections
CreateBodies(c) ==
    IF c = "reminders"
    THEN {DialogPayload(NoReminder, "t", Date0510, Time2344, TRUE)}
    ELSE {[title |-> "t"]}

PatchBodies(c) ==
    IF c = "reminders" THEN {StatusBody("overdue")}
    ELSE {[title |-> "t"]}

\* the ids a request may name
RequestIds == ReminderIds

\* the map of collection c becomes store, its counter next
StoreBecomes(c, store, next) ==
    IF c = "reminders"
    THEN /\ storageReminders' = store
         /\ nextReminderId' = next
         /\ UNCHANGED <<storageOther, nextOtherId>>
    ELSE /\ storageOther' = [storageOther EXCEPT ![c] = store]
         /\ nextOtherId' = [nextOtherId EXCEPT ![c] = next]
         /\ UNCHANGED <<storageReminders, nextReminderId>>

NextIdOf(c) == IF c = "reminders" THEN nextReminderId ELSE nextOtherId[c]

StorageUnchanged ==
    UNCHANGED <<storageReminders, nextReminderId, storageOther, nextOtherId>>

Answer(method, c, sessionUser, id, body, status, sent, before) ==
    apiResponse' = [method |-> method, collection |-> c, uid |-> sessionUser,
                    id |-> id, body |-> body, status |-> status, sent |-> sent,
                    before |-> before]

\* what an API request leaves alone
ApiFrame ==
    UNCHANGED <<reminders, notifiedReminders, notificationsEnabled, mounted, now,
                requests, fired, lastPass, lastResponse, events, tasks,
                conflictCall, conflicts, grouped, extraVars>>

\* app.get("/api/<c>")
ApiList ==
    /\ \E c \in Collections, sessionUser \in Users \cup {NoUser} :
          LET uid == checkAuth(sessionUser)
          IN  IF uid = NullUid
              THEN Answer("GET", c, sessionUser, 0, EmptyMap, Unauthorized, {}, {})
              ELSE Answer("GET", c, sessionUser, 0, EmptyMap, Ok,
                          {StoreOf(c)[i] : i \in {i \in DOMAIN StoreOf(c) :
                                                     StoreOf(c)[i].userId = uid}}, {})
    /\ StorageUnchanged
    /\ ApiFrame

\* the bodies of a client that also sends the fields the server sets
\* itself: an owner, an id
ForgedCreateBodies(c) ==
    {Spread(body, [userId |-> u]) : body \in CreateBodies(c), u \in Users}

ForgedPatchBodies == {[userId |-> u] : u \in Users} \cup {[id |-> 2]}

\* app.post("/api/<c>"), with the bodies of an ordinary or of a forging client
ApiCreateWith(forged) ==
    /\ \E c \in Collections, sessionUser \in Users \cup {NoUser} :
       \E body \in IF forged THEN ForgedCreateBodies(c) ELSE CreateBodies(c) :
          LET uid == checkAuth(sessionUser)
              id == NextIdOf(c)
              data == Spread(body, [userId |-> uid])
              record == IF c = "reminders" THEN createReminder(id, data)
                        ELSE createItem(id, data)
          IN  IF uid = NullUid
              THEN /\ Answer("POST", c, sessionUser, 0, body, Unauthorized, {}, {})
                   /\ StorageUnchanged
              ELSE /\ HasRoom(c)
                   /\ StoreBecomes(c, MapSet(StoreOf(c), id, record), id + 1)
                   /\ Answer("POST", c, sessionUser, id, body, Ok, {record}, {})
    /\ ApiFrame

ApiCreate == ApiCreateWith(FALSE)

ApiCreateForged == ApiCreateWith(TRUE)

\* app.patch("/api/<c>/:id"), with the bodies of an ordinary or of a forging
\* client
ApiUpdateWith(forged) ==
    /\ \E c \in Collections, sessionUser \in Users \cup {NoUser}, id \in RequestIds :
       \E body \in IF forged THEN ForgedPatchBodies ELSE PatchBodies(c) :
          LET uid == checkAuth(sessionUser)
          IN  IF uid = NullUid
              THEN /\ Answer("PATCH", c, sessionUser, id, body, Unauthorized, {}, {})
                   /\ StorageUnchanged
              ELSE IF id \notin DOMAIN StoreOf(c)
              THEN /\ Answer("PATCH", c, sessionUser, id, body, ServerError, {}, {})
                   /\ StorageUnchanged
              ELSE LET store == updateReminder(StoreOf(c), id, body)
                   IN  /\ StoreBecomes(c, store, NextIdOf(c))
                       /\ Answer("PATCH", c, sessionUser, id, body, Ok, {store[id]},
                                 {StoreOf(c)[id]})
    /\ ApiFrame

ApiUpdate == ApiUpdateWith(FALSE)

ApiUpdateForged == ApiUpdateWith(TRUE)

\* app.delete("/api/<c>/:id")
ApiDelete ==
    /\ \E c \in Collections, sessionUser \in Users \cup {NoUser}, id \in RequestIds :
          LET uid == checkAuth(sessionUser)
          IN  IF uid = NullUid
              THEN /\ Answer("DELETE", c, sessionUser, id, EmptyMap, Unauthorized, {}, {})
                   /\ StorageUnchanged
              ELSE /\ StoreBecomes(c, MapDelete(StoreOf(c), id), NextIdOf(c))
                   /\ Answer("DELETE", c, sessionUser, id, EmptyMap, Ok, {},
                             {StoreOf(c)[i] : i \in {id} \cap DOMAIN StoreOf(c)})
    /\ ApiFrame

NextApi ==
    \/ ApiList
    \/ ApiCreate
    \/ ApiUpdate
    \/ ApiDelete

ApiSpec == Init /\ [][NextApi]_vars

\* the routes under clients that send forged bodies
NextForged ==
    \/ ApiCreateForged
    \/ ApiUpdateForged
    \/ ApiDelete

ForgedSpec == Init /\ [][NextForged]_vars


\* ---------------------------------------------------------- time utilities
\* the date strings handed to the time utilities: two of the form
\* YYYY-MM-DD, "2024-5-10", "10/05/2024", "2024-05", "2024-0a-10", "20240510", "amanha" and ""
ParseDates ==
    { Date0510,
      <<"2", "0", "2", "4", "-", "0", "5", "-", "1", "1">>,
      <<"2", "0", "2", "4", "-", "5", "-", "1", "0">>,
      <<"1", "0", "/", "0", "5", "/", "2", "0", "2", "4">>,
      <<"2", "0", "2", "4", "-", "0", "5">>,
      <<"2", "0", "2", "4", "-", "0", "a", "-", "1", "0">>,
      <<"2", "0", "2", "4", "0", "5", "1", "0">>,
      <<"a", "m", "a", "n", "h", "a">>,
      <<>> }

\* the time strings: two of the form HH:MM, "2344", "ab:cd", "23:", ":44", "23-44", "9:5", "23:4x", "23:44:00",
\* and the absent time (null, "")
ParseTimes ==
    { Time2344,
      <<"0", "9", ":", "0", "0">>,
      <<"2", "3", "4", "4">>,
      <<"a", "b", ":", "c", "d">>,
      <<"2", "3", ":">>,
      <<":", "4", "4">>,
      <<"2", "3", "-", "4", "4">>,
      <<"9", ":", "5">>,
      <<"2", "3", ":", "4", "x">>,
      <<"2", "3", ":", "4", "4", ":", "0", "0">>,
      NoTime,
      Null }

\* a time utility has returned value: none of them has a throw statement,
\* and split, map(Number) and new Date(...) do not throw on a string
Returned(fn, dateStr, timeStr, value) ==
    [fn |-> fn, dateStr |-> dateStr, timeStr |-> timeStr, threw |-> FALSE,
     value |-> value]

ParseFrame ==
    UNCHANGED <<pageVars, events, tasks, conflictCall, conflicts, storageOther,
                nextOtherId, apiResponse, grouped, effect, users, signups,
                attendances, nextId, issued>>

CallParseLocalDate ==
    /\ \E dateStr \in ParseDates :
          parsed' = Returned("parseLocalDate", dateStr, Null, parseLocalDate(dateStr))
    /\ ParseFrame

CallParseLocalDateTime ==
    /\ \E dateStr \in ParseDates, timeStr \in ParseTimes :
          parsed' = Returned("parseLocalDateTime", dateStr, timeStr,
                             parseLocalDateTime(dateStr, timeStr))
    /\ ParseFrame

CallTimeToMinutes ==
    /\ \E timeStr \in ParseTimes :
          parsed' = Returned("timeToMinutes", <<>>, timeStr, timeToMinutes(timeStr))
    /\ ParseFrame

NextParse ==
    \/ CallParseLocalDate
    \/ CallParseLocalDateTime
    \/ CallTimeToMinutes

ParseSpec == Init /\ [][NextParse]_vars

\* ---------------------------------------------------------------- signup
\* POST /api/auth/signup. The handler runs up to its first await that waits
\* for work outside the event loop, bcrypt.hash inside createUser, in one
\* turn; it stores the user in a later turn, and the handlers of other
\* requests may run in between.

UpperChars == {"A", "B"}
LowerChars == {"a", "b", "u", "f", "r"}

\* String.prototype.toLowerCase
LowerChar(c) == CASE c = "A" -> "a" [] c = "B" -> "b" [] OTHER -> c

toLowerCase(str) == [i \in 1..Len(str) |-> LowerChar(str[i])]

\* String.prototype.endsWith
endsWith(str, suffix) ==
    /\ Len(str) >= Len(suffix)
    /\ SubSeq(str, Len(str) - Len(suffix) + 1, Len(str)) = suffix

UfuSuffix == <<"@", "u", "f", "u", ".", "b", "r">>

\* the e-mails and passwords the clients send
SignupEmails ==
    { <<"a">> \o UfuSuffix, <<"A">> \o UfuSuffix, <<"b">> \o UfuSuffix,
      <<"a", "@", "b", ".", "b", "r">>, <<>> }

SignupPasswords ==
    { <<"A", "a", "1", "!", "a", "a", "a", "a">>, <<"A", "a", "1", "!">>,
      <<"a", "a", "a", "a", "a", "a", "a", "a">> }

\* the complexity test of the handler
Complex(password) ==
    /\ Len(password) >= 8
    /\ \E i \in 1..Len(password) : password[i] \in UpperChars
    /\ \E i \in 1..Len(password) : password[i] \in LowerChars
    /\ \E i \in 1..Len(password) : IsDigit(password[i])
    /\ \E i \in 1..Len(password) :
          ~(password[i] \in UpperChars \cup LowerChars \/ IsDigit(password[i]))

BadRequest == 400

\* MemStorage.getUserByEmail: the users stored under the e-mail
getUserByEmail(email) == {u \in users : u.email = toLowerCase(email)}

\* the user MemStorage.createUser stores; its id is a fresh randomUUID()
createUser(data) == [id |-> Cardinality(users) + 1, email |-> data.email]

SignupFrame ==
    UNCHANGED <<pageVars, events, tasks, conflictCall, conflicts, storageOther,
                nextOtherId, apiResponse, grouped, parsed, effect, attendances,
                nextId, issued>>

\* request r arrives: the handler validates, looks the e-mail up, and
\* either answers 400 or calls createUser, which starts to hash
SignupCheck(r) ==
    /\ signups[r].pc = "idle"
    /\ \E email \in SignupEmails, password \in SignupPasswords :
          LET normalizedEmail == toLowerCase(email)
          IN  signups' = [signups EXCEPT ![r] =
                  IF ~endsWith(normalizedEmail, UfuSuffix)
                      \/ ~Complex(password)
                      \/ getUserByEmail(normalizedEmail) # {}
                  THEN [pc |-> "done", email |-> normalizedEmail,
                        status |-> BadRequest]
                  ELSE [pc |-> "hashing", email |-> normalizedEmail,
                        status |-> 0]]
    /\ UNCHANGED users
    /\ SignupFrame

\* bcrypt.hash of request r has resolved: createUser stores the user and
\* the handler answers
SignupStore(r) ==
    /\ signups[r].pc = "hashing"
    /\ users' = users \cup {createUser([email |-> signups[r].email])}
    /\ signups' = [signups EXCEPT ![r] = [@ EXCEPT !.pc = "done", !.status = Ok]]
    /\ SignupFrame

\* the answer of request r has been sent; the connection serves the next
SignupDone(r) ==
    /\ signups[r].pc = "done"
    /\ signups' = [signups EXCEPT ![r] = NoSignup]
    /\ UNCHANGED users
    /\ SignupFrame

NextSignup ==
    \/ \E r \in 1..MaxSignups : SignupCheck(r)
    \/ \E r \in 1..MaxSignups : SignupStore(r)
    \/ \E r \in 1..MaxSignups : SignupDone(r)

SignupSpec == Init /\ [][NextSignup]_vars

\* ------------------------------------------------------------- record ids
\* The create and delete operations of MemStorage, called directly.

\* the kinds whose create reads a counter the class declares
NumberedKinds == {"reminders", "events", "tasks"}

\* n++ : the value of the expression and the value left in the field;
\* undefined becomes NaN, and NaN + 1 is NaN
PostIncrement(n) ==
    IF n = Undefined \/ n = NaN THEN [value |-> NaN, next |-> NaN]
    ELSE [value |-> n, next |-> n + 1]

\* the record createAttendance builds, cut down to the fields the model
\* deals with
createAttendance(id, attendance) ==
    [id |-> id,
     userId |-> OrDefault(attendance, "userId", ""),
     status |-> OrDefault(attendance, "status", "present")]

StorageFrame ==
    UNCHANGED <<reminders, notifiedReminders, notificationsEnabled, mounted, now,
                requests, fired, lastPass, lastResponse, events, tasks,
                conflictCall, conflicts, apiResponse, grouped, parsed, effect,
                users, signups>>

\* createReminder, createEvent, createTask
StorageCreate ==
    /\ Len(issued) < MaxCreates
    /\ \E c \in NumberedKinds, u \in Users :
          LET inc == PostIncrement(NextIdOf(c))
              data == [userId |-> u, title |-> "t"]
              record == IF c = "reminders" THEN createReminder(inc.value, data)
                        ELSE createItem(inc.value, data)
          IN  /\ StoreBecomes(c, MapSet(StoreOf(c), record.id, record), inc.next)
              /\ issued' = Append(issued, <<c, inc.value>>)
    /\ UNCHANGED <<attendances, nextId>>
    /\ StorageFrame

\* deleteReminder, deleteEvent, deleteTask
StorageDelete ==
    /\ \E c \in NumberedKinds : \E id \in DOMAIN StoreOf(c) :
          StoreBecomes(c, MapDelete(StoreOf(c), id), NextIdOf(c))
    /\ UNCHANGED <<attendances, nextId, issued>>
    /\ StorageFrame

\* createAttendance: const id = this.nextId++
CreateAttendance ==
    /\ Len(issued) < MaxCreates
    /\ \E u \in Users :
          LET inc == PostIncrement(nextId)
          IN  /\ attendances' = MapSet(attendances, inc.value,
                                       createAttendance(inc.value, [userId |-> u]))
              /\ nextId' = inc.next
              /\ issued' = Append(issued, <<"attendances", inc.value>>)
    /\ StorageUnchanged
    /\ StorageFrame

\* deleteAttendance
DeleteAttendance ==
    /\ \E id \in DOMAIN attendances : attendances' = MapDelete(attendances, id)
    /\ UNCHANGED <<nextId, issued>>
    /\ StorageUnchanged
    /\ StorageFrame

NextStorage ==
    \/ StorageCreate
    \/ StorageDelete
    \/ CreateAttendance
    \/ DeleteAttendance

StorageSpec == Init /\ [][NextStorage]_vars

\* ---------------------------------------------------------------- claims
\* the due instant and the whole minutes left, of a reminder of the model
\* (its dates are well formed)
DueInstant(r) == ParsedDue[r.dueDate, r.dueTime]

MinutesLeft(r, t) == (DueInstant(r) - t) \div 60000

Intervals == Range(NOTIFICATION_INTERVALS)

\* C1: over all passes of one scheduler lifetime, the alert keyed by a
\* reminder id and a lead time is sent at most once.
C1_AlertAtMostOnce ==
    \A i, j \in 1..Len(fired) : fired[i] = fired[j] => i = j

\* a pass ran inside the lead window of an alert that was already sent, on a
\* reminder that still asks for alerts, and sent nothing
C1_Witness ==
    /\ lastPass.ran
    /\ lastPass.alerts = {}
    /\ notificationsEnabled
    /\ \E a \in Range(fired) :
          /\ a[1] \in DOMAIN reminders
          /\ reminders[a[1]].status # "completed"
          /\ reminders[a[1]].notificationEnabled
          /\ MinutesLeft(reminders[a[1]], now) = a[2]

\* C3: a pass emits the overdue update for exactly the reminders of the
\* snapshot that are pending and whose due instant lies before now.
C3_PromotesExactlyPastDuePending ==
    lastPass.ran =>
        \A id \in DOMAIN reminders :
            id \in lastPass.updates
                <=> (reminders[id].status = "pending" /\ DueInstant(reminders[id]) < now)

C3_Witness ==
    /\ lastPass.ran
    /\ \E id \in lastPass.updates : reminders[id].status = "pending"

\* C5: an alert for lead time L is sent on a pass only if the whole minutes
\* left are in (L - 1, L]; and a pass that reaches the notification block of
\* a reminder with the minutes left in that window, both flags on and the
\* key not yet in the set, sends the alert and puts the key in the set.
C5_LeadWindow ==
    lastPass.ran =>
        /\ \A a \in lastPass.alerts :
              /\ a[1] \in DOMAIN reminders
              /\ a[2] - 1 < MinutesLeft(reminders[a[1]], now)
              /\ MinutesLeft(reminders[a[1]], now) <= a[2]
        /\ \A id \in DOMAIN reminders, L \in Intervals :
              ( /\ reminders[id].status # "completed"
                /\ L - 1 < MinutesLeft(reminders[id], now)
                /\ MinutesLeft(reminders[id], now) <= L
                /\ notificationsEnabled
                /\ reminders[id].notificationEnabled
                /\ notificationKey(id, L) \notin lastPass.notified )
              => ( /\ <<id, L>> \in lastPass.alerts
                   /\ notificationKey(id, L) \in notifiedReminders )

C5_Witness ==
    /\ lastPass.ran
    /\ \E a \in lastPass.alerts : notificationKey(a[1], a[2]) \in notifiedReminders

\* C9: with the page's notifications flag off, a pass still emits the overdue
\* update for every past-due pending reminder and sends no alert.
C9_DisabledStillPromotes ==
    (lastPass.ran /\ ~notificationsEnabled) =>
        /\ lastPass.alerts = {}
        /\ \A id \in DOMAIN reminders :
              (reminders[id].status = "pending" /\ DueInstant(reminders[id]) < now)
                  => id \in lastPass.updates

\* C2: in every state of the storage a reminder's completedAt is non-null
\* exactly when its status is completed.
C2_CompletedAtIffCompleted ==
    \A id \in DOMAIN storageReminders :
        (storageReminders[id].completedAt # Null)
            <=> (storageReminders[id].status = "completed")

\* C4: a pass emits no overdue update and sends no alert for a reminder of
\* the snapshot whose status is completed or cancelled.
C4_CompletedAndCancelledSkipped ==
    lastPass.ran =>
        \A id \in DOMAIN reminders :
            reminders[id].status \in {"completed", "cancelled"}
                => /\ id \notin lastPass.updates
                   /\ \A L \in Intervals : <<id, L>> \notin lastPass.alerts

DayMs == 24 * 60 * 60 * 1000

\* parseLocalDate over the dates of the model, evaluated once
ParsedDay == [d \in DueDates |-> parseLocalDate(d)]

\* the pending reminders of the snapshot that have no due time
NoTimePending == {id \in DOMAIN reminders :
                     reminders[id].status = "pending" /\ reminders[id].dueTime = Null}

\* C7 as claimed: a pending reminder without due time is not promoted by a
\* pass at any instant of its due day, and is promoted by a pass on the
\* following day.
C7_NeverOverdueOnDueDay ==
    lastPass.ran =>
        \A id \in NoTimePending :
            LET dayStart == ParsedDay[reminders[id].dueDate]
            IN  /\ (dayStart <= now /\ now < dayStart + DayMs)
                      => id \notin lastPass.updates
                /\ (dayStart + DayMs <= now /\ now < dayStart + 2 * DayMs)
                      => id \in lastPass.updates

\* C7 amended: such a reminder is not promoted by a pass at or before
\* 23:59:59.000 of its due day, and is promoted by every pass after that
\* instant: in the rest of that second as on the following day.
C7_OverdueAfterLastSecondBegins ==
    lastPass.ran =>
        \A id \in NoTimePending :
            LET dayStart == ParsedDay[reminders[id].dueDate]
            IN  /\ now <= dayStart + DayMs - 1000 => id \notin lastPass.updates
                /\ now > dayStart + DayMs - 1000 => id \in lastPass.updates

\* a pass inside the last second of the due day promoted the reminder
C7_Witness ==
    /\ lastPass.ran
    /\ \E id \in NoTimePending :
          /\ id \in lastPass.updates
          /\ now < ParsedDay[reminders[id].dueDate] + DayMs

\* C8: for a stored pending reminder, the toggle applied to it and then the
\* toggle applied to the result leave status pending, completedAt null and
\* every other field as it was; the first toggle completes it.
C8_ToggleRoundTrip ==
    \A id \in DOMAIN storageReminders :
        LET r0 == storageReminders[id]
            s1 == updateReminder(storageReminders, id, ToggleBody(r0, now))
            r1 == s1[id]
            s2 == updateReminder(s1, id, ToggleBody(r1, now))
            r2 == s2[id]
        IN  r0.status = "pending" =>
                /\ r1.status = "completed"
                /\ r1.completedAt # Null
                /\ r2.status = "pending"
                /\ r2.completedAt = Null
                /\ DOMAIN r2 = DOMAIN r0
                /\ \A f \in DOMAIN r0 \ {"status", "completedAt"} : r2[f] = r0[f]
                /\ DOMAIN s2 = DOMAIN storageReminders

\* the server has just applied the toggle that takes a completed reminder
\* back to pending
C8_Witness ==
    /\ lastResponse.ok
    /\ lastResponse.kind = "toggle"
    /\ lastResponse.from = "completed"
    /\ lastResponse.to = "pending"
    /\ storageReminders[lastResponse.id].completedAt = Null

ListedTransitions ==
    { <<"pending", "overdue">>, <<"pending", "completed">>,
      <<"overdue", "completed">>, <<"completed", "pending">> }

\* the ids stored before and after a step
Kept == DOMAIN storageReminders \cap DOMAIN storageReminders'

\* C6 as claimed: the stored status changes only along pending -> overdue,
\* pending -> completed, overdue -> completed, completed -> pending and
\* any -> cancelled.
C6_ListedTransitionsOnly ==
    [][\A id \in Kept :
          storageReminders'[id].status # storageReminders[id].status
              => \/ <<storageReminders[id].status, storageReminders'[id].status>>
                        \in ListedTransitions
                 \/ storageReminders'[id].status = "cancelled"]_vars

\* the statuses each kind of write can store
StatusesOfKind(kind) ==
    CASE kind = "overdue" -> {"overdue"}
      [] kind = "toggle" -> {"completed", "pending"}
      [] kind = "edit" -> {"pending", "completed"}
      [] kind = "cancel" -> {"cancelled"}
      [] OTHER -> {}

\* C6 amended: the stored status changes only when the server applies a
\* write to that reminder, and then to a status of that write's kind: overdue
\* for a scheduler promotion, completed or pending for a toggle, pending or
\* completed for a dialog edit, cancelled for a cancel.
C6_StatusSetByWriteKind ==
    [][\A id \in Kept :
          storageReminders'[id].status # storageReminders[id].status
              => /\ lastResponse'.ok
                 /\ lastResponse'.id = id
                 /\ lastResponse'.from = storageReminders[id].status
                 /\ storageReminders'[id].status \in StatusesOfKind(lastResponse'.kind)]_vars

\* a dialog edit has just taken an overdue reminder straight back to pending
C6_Witness ==
    /\ lastResponse.ok
    /\ lastResponse.kind = "edit"
    /\ lastResponse.from = "overdue"
    /\ lastResponse.to = "pending"
    /\ storageReminders[lastResponse.id].status = "pending"

\* a write promoting reminder id to overdue has just failed
PromotionFailed(id) ==
    /\ lastResponse.kind = "overdue"
    /\ lastResponse.id = id
    /\ ~lastResponse.ok

\* C10: after a failed promotion write, the stored reminder eventually is
\* overdue, unless it is completed, cancelled or deleted; passes and
\* refetches keep occurring and a promotion write that is emitted again and
\* again eventually succeeds.
C10_FailedPromotionHeals ==
    \A id \in ReminderIds :
        PromotionFailed(id)
            ~> ( \/ id \notin DOMAIN storageReminders
                 \/ storageReminders[id].status \in {"overdue", "completed", "cancelled"} )

\* the promotion write failed and the reminder is still stored as pending
C10_Witness ==
    \E id \in DOMAIN storageReminders :
        /\ PromotionFailed(id)
        /\ storageReminders[id].status = "pending"
        /\ DueInstant(storageReminders[id]) < now

\* a pass with the flag off promoted a reminder that asks for alerts
C9_Witness ==
    /\ lastPass.ran
    /\ ~notificationsEnabled
    /\ \E id \in lastPass.updates : reminders[id].notificationEnabled

\* --------------------------------------------- claims: conflict detector
\* minutes since midnight of the time strings of the model, read off the clock
MinutesSinceMidnight ==
    (Time0900 :> 540) @@ (Time0930 :> 570) @@ (Time1000 :> 600) @@
    (Time1030 :> 630) @@ (Time1100 :> 660)

HasTime(t) == t # Null /\ t # NoTime

\* the half-open range [start, end) of an item with a start time
RangeStart(startTime) == MinutesSinceMidnight[startTime]
RangeEnd(startTime, endTime) ==
    IF HasTime(endTime) THEN MinutesSinceMidnight[endTime]
    ELSE MinutesSinceMidnight[startTime] + 60

EventReported(event) ==
    \E k \in 1..Len(conflicts) :
        conflicts[k].type = "event" /\ conflicts[k].title = event.title

TaskReported(task) ==
    \E k \in 1..Len(conflicts) :
        conflicts[k].type = "task" /\ conflicts[k].title = task.title

EventExcluded(event) == event.id = conflictCall.excludeEventId
TaskExcluded(task) == task.id = conflictCall.excludeTaskId

\* C11: an event on the candidate's date, both with a start time, is
\* reported exactly when s1 < e2 and s2 < e1 in minutes since midnight,
\* a missing end time counting as start + 60 (the event not being the
\* excluded one)
C11_ReportedIffRangesOverlap ==
    conflictCall.called =>
        \A i \in 1..Len(events) :
            LET ev == events[i]
                s1 == RangeStart(conflictCall.newStartTime)
                e1 == RangeEnd(conflictCall.newStartTime, conflictCall.newEndTime)
                s2 == RangeStart(ev.startTime)
                e2 == RangeEnd(ev.startTime, ev.endTime)
            IN  ( /\ ev.startDate = conflictCall.newDate
                  /\ HasTime(conflictCall.newStartTime)
                  /\ HasTime(ev.startTime)
                  /\ ~EventExcluded(ev) )
                => (EventReported(ev) <=> (s1 < e2 /\ s2 < e1))

\* candidate [09:00,10:00) checked against [09:30,10:30), reported, and
\* against [10:00,11:00), not reported
C11_Witness ==
    /\ conflictCall.called
    /\ conflictCall.newStartTime = Time0900
    /\ conflictCall.newEndTime = Time1000
    /\ conflictCall.excludeEventId = NoId
    /\ Len(events) = 2
    /\ events[1].startDate = CandidateDate
    /\ events[1].startTime = Time0930 /\ events[1].endTime = Time1030
    /\ events[2].startDate = CandidateDate
    /\ events[2].startTime = Time1000 /\ events[2].endTime = Time1100
    /\ EventReported(events[1])
    /\ ~EventReported(events[2])

\* C12: a non-excluded event on the candidate's date is reported whenever
\* the candidate or the event has no start time; and a candidate without a
\* time that shares its date with a non-excluded event or task without a
\* time gets a non-empty result
C12_NoStartTimeAlwaysConflicts ==
    conflictCall.called =>
        /\ \A i \in 1..Len(events) :
              ( /\ events[i].startDate = conflictCall.newDate
                /\ ~EventExcluded(events[i])
                /\ (~HasTime(conflictCall.newStartTime) \/ ~HasTime(events[i].startTime)) )
              => EventReported(events[i])
        /\ ( /\ ~HasTime(conflictCall.newStartTime)
             /\ \/ \E i \in 1..Len(events) :
                      /\ events[i].startDate = conflictCall.newDate
                      /\ ~HasTime(events[i].startTime)
                      /\ ~EventExcluded(events[i])
                \/ \E j \in 1..Len(tasks) :
                      /\ tasks[j].dueDate = conflictCall.newDate
                      /\ ~TaskExcluded(tasks[j]) )
           => conflicts # <<>>

\* a timed candidate meets an event without a start time whose end lies
\* before the candidate's start, and the event is reported
C12_Witness ==
    /\ conflictCall.called
    /\ conflictCall.newStartTime = Time1000
    /\ \E i \in 1..Len(events) :
          /\ events[i].startDate = CandidateDate
          /\ events[i].startTime = NoTime
          /\ events[i].endTime = Time1000
          /\ EventReported(events[i])

\* C13: every reported item is on the candidate's date, so a calendar with
\* no event and no task on that date gives the empty result
C13_OtherDatesNeverReported ==
    conflictCall.called =>
        /\ \A k \in 1..Len(conflicts) : conflicts[k].date = conflictCall.newDate
        /\ ( /\ \A i \in 1..Len(events) : events[i].startDate # conflictCall.newDate
             /\ \A j \in 1..Len(tasks) : tasks[j].dueDate # conflictCall.newDate )
           => conflicts = <<>>

\* a candidate without a time, the most it can conflict with, against
\* events and a task that are all on another date
C13_Witness ==
    /\ conflictCall.called
    /\ ~HasTime(conflictCall.newStartTime)
    /\ Len(events) = MaxEvents
    /\ Len(tasks) = MaxTasks
    /\ \A i \in 1..Len(events) : events[i].startDate = Date0511
    /\ \A i \in 1..Len(events) : ~HasTime(events[i].startTime)
    /\ \A j \in 1..Len(tasks) : tasks[j].dueDate = Date0511
    /\ conflicts = <<>>

\* C14: a task is reported only for a candidate without a start time and
\* only on its due date: a timed candidate gets no item of type task
C14_TasksOnlyForUntimedCandidate ==
    conflictCall.called =>
        /\ \A k \in 1..Len(conflicts) :
              conflicts[k].type = "task" =>
                  /\ ~HasTime(conflictCall.newStartTime)
                  /\ conflicts[k].date = conflictCall.newDate
        /\ HasTime(conflictCall.newStartTime) =>
              \A j \in 1..Len(tasks) : ~TaskReported(tasks[j])

\* a timed candidate on the due date of a task that is not excluded
C14_Witness ==
    /\ conflictCall.called
    /\ HasTime(conflictCall.newStartTime)
    /\ conflictCall.excludeTaskId = NoId
    /\ \E j \in 1..Len(tasks) : tasks[j].dueDate = CandidateDate
    /\ \A j \in 1..Len(tasks) : ~TaskReported(tasks[j])

\* the items a sequence of conflict items keeps
RECURSIVE WithoutTitles(_, _)
WithoutTitles(items, titles) ==
    IF items = <<>> THEN <<>>
    ELSE IF Head(items).title \in titles THEN WithoutTitles(Tail(items), titles)
    ELSE <<Head(items)>> \o WithoutTitles(Tail(items), titles)

Sections == {"today", "upcoming", "overdue", "completed"}

\* how often the reminder id is listed in a section of the last render
TimesListed(id, section) ==
    Cardinality({k \in 1..Len(grouped[section]) : grouped[section][k].id = id})

\* the due instant falls in the local calendar day of the instant t
SameLocalDay(due, t) == due \div DayMs = t \div DayMs

\* the section the rule of the specification gives a reminder at instant t
ExpectedSection(r, t) ==
    LET due == ParsedGroupDue[r.dueDate, r.dueTime]
    IN  IF r.status = "completed" THEN "completed"
        ELSE IF due < t \/ r.status = "overdue" THEN "overdue"
        ELSE IF SameLocalDay(due, t) THEN "today"
        ELSE "upcoming"

\* C16: every reminder that passes the filters is listed once, in the
\* section the rule gives it (completed; else overdue iff due before now or
\* status overdue; else today iff due in the current local day; else
\* upcoming), in no other section, and a reminder that does not pass the
\* filters is listed nowhere
C16_EachReminderInExactlyOneSection ==
    grouped.rendered =>
        \A id \in DOMAIN reminders, section \in Sections :
            TimesListed(id, section) =
                IF /\ MatchesFilters(reminders[id], grouped.filterType,
                                     grouped.filterPriority)
                   /\ section = ExpectedSection(reminders[id], grouped.at)
                THEN 1 ELSE 0

\* a pending reminder due earlier the same day sits in overdue while one
\* due the next day sits in upcoming
C16_Witness ==
    /\ grouped.rendered
    /\ grouped.filterType = "all" /\ grouped.filterPriority = "all"
    /\ DOMAIN reminders = {1, 2}
    /\ reminders[1].status = "pending" /\ reminders[1].dueDate = Date0510
    /\ reminders[1].dueTime = Time2344
    /\ reminders[2].status = "pending" /\ reminders[2].dueDate = Date0511
    /\ grouped.at = ClockInstant(ClockReadings[4])
    /\ Len(grouped.overdue) = 1 /\ grouped.overdue[1].id = 1
    /\ Len(grouped.upcoming) = 1 /\ grouped.upcoming[1].id = 2

\* ----------------------------------------------------- claims: API routes
\* C17: a list, create, update or delete request on any of the six
\* collections that carries no session user id is answered 401 with no
\* record, and leaves every stored collection and id counter as it was
C17_UnauthenticatedRequestRejected ==
    [][ (apiResponse'.method # "none" /\ apiResponse'.uid = NoUser)
        => /\ apiResponse'.status = Unauthorized
           /\ apiResponse'.sent = {}
           /\ StorageUnchanged ]_vars

\* a PATCH without a session on a stored pending reminder, asking for
\* overdue, has been answered 401 and the reminder is pending still
C17_Witness ==
    /\ apiResponse.method = "PATCH"
    /\ apiResponse.collection = "reminders"
    /\ apiResponse.uid = NoUser
    /\ apiResponse.status = Unauthorized
    /\ apiResponse.body = StatusBody("overdue")
    /\ apiResponse.id \in DOMAIN storageReminders
    /\ storageReminders[apiResponse.id].status = "pending"

\* C18: no answer sent to a logged-in user holds a record of another user
C18_AnswersHoldOwnRecordsOnly ==
    apiResponse.uid \in Users =>
        \A record \in apiResponse.sent : record.userId = apiResponse.uid

\* C19: a reminder patch that is applied again changes nothing: the
\* stored map is a fixed point of the same patch, and when the reminder
\* already held the values of the body the patch has left it as it was
C19_PatchIdempotent ==
    ( /\ apiResponse.method = "PATCH"
      /\ apiResponse.collection = "reminders"
      /\ apiResponse.status = Ok )
    => /\ updateReminder(storageReminders, apiResponse.id, apiResponse.body)
              = storageReminders
       /\ \A before \in apiResponse.before :
              before.status = apiResponse.body.status
                  => storageReminders[apiResponse.id] = before

\* the promotion {status: overdue} applied to a reminder that is overdue
\* already
C19_Witness ==
    /\ apiResponse.method = "PATCH"
    /\ apiResponse.collection = "reminders"
    /\ apiResponse.status = Ok
    /\ apiResponse.body = StatusBody("overdue")
    /\ \E before \in apiResponse.before : before.status = "overdue"
    /\ storageReminders[apiResponse.id].status = "overdue"

\* ------------------------------------------- claims: promotion at the due instant
\* the pending reminders of the snapshot whose due instant is the instant now
PendingDueNow ==
    {id \in DOMAIN reminders :
        reminders[id].status = "pending" /\ DueInstant(reminders[id]) = now}

\* C20 as stated: a pass at or after the due instant of a pending reminder
\* emits the overdue update for it
C20_PromotedFromDueInstantOn ==
    lastPass.ran =>
        \A id \in DOMAIN reminders :
            (reminders[id].status = "pending" /\ now >= DueInstant(reminders[id]))
                => id \in lastPass.updates

\* C20: the promotion is triggered when now is later than the due instant:
\* a pass at the very due instant of a pending reminder emits no update
\* for it, a pass at any later instant does
C20_PromotedOnlyAfterDueInstant ==
    lastPass.ran =>
        /\ \A id \in PendingDueNow : id \notin lastPass.updates
        /\ \A id \in DOMAIN reminders :
              (reminders[id].status = "pending" /\ now > DueInstant(reminders[id]))
                  => id \in lastPass.updates

\* a pass has run at the due instant of a pending reminder
C20_Witness ==
    /\ lastPass.ran
    /\ PendingDueNow # {}
    /\ lastPass.updates = {}

\* ------------------------------------------------- claims: scheduler stop
\* the reminders of the snapshot a pass would promote
Promotable ==
    {id \in DOMAIN reminders :
        reminders[id].status = "pending" /\ DueInstant(reminders[id]) < now}

\* C21: once the page is unmounted it stays so, and from then on no step is
\* an evaluation pass, no alert is added to the log and no overdue update
\* is put in flight
C21_NoPassAfterUnmount ==
    [][ ~mounted =>
          /\ ~mounted'
          /\ ~lastPass'.ran
          /\ fired' = fired
          /\ \A id \in ReminderIds :
                 OverdueRequest(id) \in requests' => OverdueRequest(id) \in requests ]_vars

\* the page is unmounted while its snapshot holds a pending reminder past
\* its due instant for which no update is in flight
C21_Witness ==
    /\ ~mounted
    /\ \E id \in Promotable : OverdueRequest(id) \notin requests

\* ------------------------------------------------ claims: time utilities
AllDigits(s, positions) == \A i \in positions : IsDigit(s[i])

\* YYYY-MM-DD
DateFormOk(s) ==
    Len(s) = 10 /\ s[5] = "-" /\ s[8] = "-" /\ AllDigits(s, {1, 2, 3, 4, 6, 7, 9, 10})

\* HH:MM
TimeFormOk(s) == Len(s) = 5 /\ s[3] = ":" /\ AllDigits(s, {1, 2, 4, 5})

\* the last call was given a date string, or a time string that is not
\* absent, of another form
MalformedCall ==
    \/ parsed.fn \in {"parseLocalDate", "parseLocalDateTime"} /\ ~DateFormOk(parsed.dateStr)
    \/ /\ parsed.fn \in {"parseLocalDateTime", "timeToMinutes"}
       /\ parsed.timeStr \notin {Null, NoTime}
       /\ ~TimeFormOk(parsed.timeStr)

\* C22: a time utility called with a string that is not of the form
\* YYYY-MM-DD or HH:MM fails instead of returning a value
C22_MalformedInputFails == MalformedCall => parsed.threw

\* C23: when the write that promotes a reminder to overdue fails, a toast
\* reports the failure of that write
C23_FailedPromotionShowsToast ==
    lastResponse.kind = "overdue" /\ ~lastResponse.ok
        => toast(lastResponse.kind, lastResponse.ok) # NoToast

\* C24: passes are started by the timer only (and once when the scheduler
\* starts), so no reminder gets more than one overdue update between two
\* ticks of the timer
C24_OneOverdueUpdatePerTick ==
    \A id \in ReminderIds : effect.emitted[id] <= 1

\* C25: on each of the six collections a PATCH or DELETE of a logged-in
\* user leaves every record of another user stored and as it was, and a
\* record a POST creates belongs to the session's user, whatever userId
\* the body carries
C25_OtherUsersRecordsUntouched ==
    [][ apiResponse'.uid \in Users
        => /\ \A c \in Collections : \A id \in DOMAIN StoreOf(c) :
                 StoreOf(c)[id].userId # apiResponse'.uid
                     => /\ id \in DOMAIN StoreOf(c)'
                        /\ StoreOf(c)'[id] = StoreOf(c)[id]
           /\ apiResponse'.method = "POST"
                 => \A record \in apiResponse'.sent :
                        record.userId = apiResponse'.uid ]_vars

\* the alerts the pass of this step sent for reminder id
AlertsOfPass(id) == {a \in lastPass.alerts : a[1] = id}

\* C26: one evaluation pass sends at most one lead-time notification for
\* a reminder
C26_OneAlertPerReminderPerPass ==
    lastPass.ran => \A id \in ReminderIds : Cardinality(AlertsOfPass(id)) <= 1

\* a pass has sent one alert for a reminder none of whose leads had been
\* notified before
C26_Witness ==
    /\ lastPass.ran
    /\ lastPass.notified = {}
    /\ \E id \in ReminderIds : Cardinality(AlertsOfPass(id)) = 1

\* C27: while the due date and time of a reminder are not edited and the
\* clock does not go back, its lead-time notifications fire in strictly
\* descending order of lead: none fires after one for a smaller lead
C27_LeadsFireInDescendingOrder ==
    \A i \in 1..Len(fired) : \A j \in 1..Len(fired) :
        (i < j /\ fired[i][1] = fired[j][1]) => fired[i][2] > fired[j][2]

\* the four leads of one reminder have all fired
C27_Witness ==
    \E id \in ReminderIds :
        {fired[i][2] : i \in {k \in 1..Len(fired) : fired[k][1] = id}}
            = Intervals

\* C28: whatever the interleaving of the signup requests, the user store
\* holds at most one user per lower-cased e-mail
C28_OneUserPerEmail ==
    \A u \in users : \A v \in users :
        toLowerCase(u.email) = toLowerCase(v.email) => u = v

\* C29: after any create, update and delete with arbitrary patch bodies, a
\* stored reminder carries the id it is stored under and the userId it
\* was created with
C29_IdAndOwnerKept ==
    [][ \A id \in DOMAIN storageReminders' :
            /\ storageReminders'[id].id = id
            /\ id \in DOMAIN storageReminders
                  => storageReminders'[id].userId = storageReminders[id].userId ]_vars

\* C30: a create of MemStorage assigns an id that no earlier record of the
\* kind was given, deleted or not; so for reminders, events, tasks and
\* attendances
C30_CreatedIdsAreFresh ==
    \A i \in 1..Len(issued) : \A j \in 1..Len(issued) :
        (i < j /\ issued[i][1] = issued[j][1]) => issued[i][2] # issued[j][2]

====
